---- MODULE Spec2Model ----
(***************************************************************************)
(* Model of the calendar tracker's aggregation and trend engine            *)
(* (calendar_logic.py, date_utils.py, tracker.py).                         *)
(*                                                                         *)
(* Conventions                                                             *)
(*  - A python dict is a sequence of <<key, value>> pairs with distinct    *)
(*    keys, in insertion order (dicts iterate in insertion order).         *)
(*  - A str is a sequence of one-character strings, so that strip() and    *)
(*    lower() are computed character by character.                         *)
(*  - A date is [year, month, day]; a timedelta is a number of days and is *)
(*    added through the proleptic Gregorian ordinal (date.toordinal()).    *)
(*  - An event's dateTime is a whole number of hours, so that              *)
(*    total_seconds() / 3600 is the difference of the two.                 *)
(*  - Averages and percentages are exact rationals [num, den], den > 0.    *)
(***************************************************************************)
EXTENDS Integers, Sequences, FiniteSets, TLC

VARIABLES
    pc,               \* which call has run: "ready" before, the call's name after
    today,            \* the value date.today() returns
    events,           \* the events handed to analyze_events / fetched by the breakdown
    target_category,  \* analyze_category_breakdown's target_category
    titles,           \* a title -> hours dict handed to the ranking expressions
    reference_date,   \* the reference_date argument of the date utilities
    num_weeks,        \* analyze_weekly_trends' num_weeks
    week_offset,      \* the loop variable of analyze_weekly_trends
    weekly_data,      \* analyze_weekly_trends' weekly_data list
    fetch_log,        \* the (time_min, time_max) pairs handed to fetch_events
    result,           \* the value the call returned
    arg_start_date,   \* the start_date argument of a call that takes a date range
    arg_end_date,     \* its end_date argument
    page_token,       \* fetch_events' page_token
    fetch_all_events, \* fetch_events' all_events
    requests,         \* the page requests issued to the event source, in order
    pages,            \* the responses of the event source, in order
    caller,           \* the entry point that called fetch_events, "" when none has
    fetch_time_min,   \* fetch_events' time_min argument
    fetch_time_max,   \* its time_max argument
    user_entry        \* the text the user typed at the last prompt of the CLI

rangeVars == <<arg_start_date, arg_end_date>>

fetchVars == <<page_token, fetch_all_events, requests, pages, caller,
               fetch_time_min, fetch_time_max>>

cliVars == <<user_entry>>

vars == <<pc, today, events, target_category, titles, reference_date,
          num_weeks, week_offset, weekly_data, fetch_log, result,
          rangeVars, fetchVars, cliVars>>

\* An optional value (a key a dict may lack, an argument that may be None) is
\* None or Some(x).
None == <<>>

Some(x) == <<x>>

Val(o) == o[1]

\* No call with a date range has been made, no page has been requested.
NoRange == arg_start_date = None /\ arg_end_date = None

NoCli == user_entry = None

NoFetch ==
    /\ page_token = None
    /\ fetch_all_events = <<>>
    /\ requests = <<>>
    /\ pages = <<>>
    /\ caller = ""
    /\ fetch_time_min = None
    /\ fetch_time_max = None

(***************************************************************************)
(* Bounds of the model                                                     *)
(***************************************************************************)
MaxEvents == 2
MaxTitles == 11
MaxWeeks == 4
MaxPages == 3
MaxFetchWeeks == 2

(***************************************************************************)
(* Python built-ins                                                        *)
(***************************************************************************)
Range(s) == {s[i] : i \in DOMAIN s}

SeqsUpTo(S, n) == UNION {[1..k -> S] : k \in 0..n}

RECURSIVE SumSeq(_)
SumSeq(s) == IF s = <<>> THEN 0 ELSE s[1] + SumSeq(Tail(s))

Max(a, b) == IF a >= b THEN a ELSE b

\* ---- dict --------------------------------------------------------------
Keys(d) == {d[i][1] : i \in DOMAIN d}

Values(d) == [i \in DOMAIN d |-> d[i][2]]

IndexOf(d, k) == CHOOSE i \in DOMAIN d : d[i][1] = k

\* d.get(k, default)
DictGet(d, k, default) == IF k \in Keys(d) THEN d[IndexOf(d, k)][2] ELSE default

\* d[k] = v
DictSet(d, k, v) ==
    IF k \in Keys(d)
    THEN [i \in DOMAIN d |-> IF d[i][1] = k THEN <<k, v>> ELSE d[i]]
    ELSE Append(d, <<k, v>>)

\* d[k] += x on a defaultdict(float)
DictAdd(d, k, x) == DictSet(d, k, DictGet(d, k, 0) + x)

\* ---- str ---------------------------------------------------------------
Whitespace == {" ", "\t", "\n"}

LowerChar(c) ==
    CASE c = "A" -> "a"
      [] c = "B" -> "b"
      [] c = "U" -> "u"
      [] OTHER -> c

\* str.lower()
Lower(s) == [i \in DOMAIN s |-> LowerChar(s[i])]

RECURSIVE LStrip(_)
LStrip(s) == IF s # <<>> /\ s[1] \in Whitespace THEN LStrip(Tail(s)) ELSE s

RECURSIVE RStrip(_)
RStrip(s) ==
    IF s # <<>> /\ s[Len(s)] \in Whitespace
    THEN RStrip(SubSeq(s, 1, Len(s) - 1))
    ELSE s

\* str.strip()
Strip(s) == RStrip(LStrip(s))

\* ---- rationals ---------------------------------------------------------
Rat(n, d) == [num |-> n, den |-> d]

RatInt(n) == Rat(n, 1)

RatSub(a, b) == Rat(a.num * b.den - b.num * a.den, a.den * b.den)

\* a / b * 100, for b > 0
RatPercent(a, b) == Rat(a.num * b.den * 100, a.den * b.num)

RatEq(a, b) == a.num * b.den = b.num * a.den

RatLt(a, b) == a.num * b.den < b.num * a.den

RatGt(a, b) == RatLt(b, a)

(***************************************************************************)
(* calendar_logic.py: the classification table                             *)
(***************************************************************************)
COLOR_CATEGORY_MAP ==
    << <<"2", "Professional Tasks">>,
       <<"7", "Meetings">>,
       <<"3", "Social Connections">>,
       <<"5", "Emotional Recharge">>,
       <<"1", "Self-Maintenance">>,
       <<"0", "Self-Maintenance">>,
       <<"6", "Life Admin">>,
       <<"8", "Mental Struggles">>,
       <<"11", "Romance">> >>

Untitled == <<"U", "n", "t", "i", "t", "l", "e", "d">>

\* event.get('start', {}).get('dateTime')
EventStart(event) == event.start

\* Mutant of EventEnd: an event without an end ends when it starts.
EventEndDefaultsToStart(event) == IF event.end = None THEN event.start ELSE event.end

\* event.get('end', {}).get('dateTime')
EventEnd(event) == event.end

\* Mutant of EventColorId: an event without a tag gets the tag of another category.
EventColorIdDefaultsToFirst(event) == IF event.colorId = None THEN "2" ELSE Val(event.colorId)

\* event.get('colorId', '0')
EventColorId(event) == IF event.colorId = None THEN "0" ELSE Val(event.colorId)

\* event.get('summary', 'Untitled')
EventSummary(event) == IF event.summary = None THEN Untitled ELSE Val(event.summary)

\* not start or not end or color_id not in COLOR_CATEGORY_MAP
IsSkipped(event) ==
    \/ EventStart(event) = None
    \/ EventEnd(event) = None
    \/ EventColorId(event) \notin Keys(COLOR_CATEGORY_MAP)

\* Mutant of Duration: a negative duration is floored at zero.
DurationFloored(event) == Max(0, Val(event.end) - Val(event.start))

\* (end_dt - start_dt).total_seconds() / 3600
Duration(event) == Val(EventEnd(event)) - Val(EventStart(event))

(***************************************************************************)
(* The ranking expressions: sorted(d.items(), key=lambda x: -x[1])[:n]     *)
(***************************************************************************)
TopTitlesN == 3

TopEventsN == 10

\* Mutant of SortKey: the sign is dropped, the order becomes ascending.
SortKeyAscending(x) == x[2]

\* lambda x: -x[1]
SortKey(x) == -x[2]

\* sorted() is stable: an item goes behind every item whose key is not larger.
RECURSIVE InsertSorted(_, _)
InsertSorted(s, x) ==
    IF s = <<>> THEN <<x>>
    ELSE IF SortKey(s[1]) > SortKey(x) THEN <<x>> \o s
    ELSE <<s[1]>> \o InsertSorted(Tail(s), x)

RECURSIVE Sorted(_)
Sorted(items) ==
    IF items = <<>> THEN <<>>
    ELSE InsertSorted(Sorted(SubSeq(items, 1, Len(items) - 1)), items[Len(items)])

\* s[:n]
Take(s, n) == SubSeq(s, 1, IF n < Len(s) THEN n ELSE Len(s))

\* sorted(titles.items(), key=lambda x: -x[1])[:3]
TopTitles(d) == Take(Sorted(d), TopTitlesN)

\* sorted(event_types.items(), key=lambda x: -x[1])[:10]
TopEvents(d) == Take(Sorted(d), TopEventsN)

(***************************************************************************)
(* CalendarAnalyzer.analyze_events                                         *)
(***************************************************************************)
\* event.get('summary', 'Untitled').strip().lower()
SummaryTitle(event) == Lower(Strip(EventSummary(event)))

\* One iteration of the loop over events.
AnalyzeEventsStep(acc, event) ==
    LET summary  == SummaryTitle(event)
        category == DictGet(COLOR_CATEGORY_MAP, EventColorId(event), None)
        duration == Duration(event)
    IN  IF IsSkipped(event)
        THEN acc
        ELSE [category_time |-> DictAdd(acc.category_time, category, duration),
              category_title_duration |->
                  DictSet(acc.category_title_duration, category,
                          DictAdd(DictGet(acc.category_title_duration, category, <<>>),
                                  summary, duration))]

RECURSIVE AnalyzeEventsLoop(_, _)
AnalyzeEventsLoop(acc, evs) ==
    IF evs = <<>> THEN acc
    ELSE AnalyzeEventsLoop(AnalyzeEventsStep(acc, evs[1]), Tail(evs))

analyze_events(evs) ==
    LET acc == AnalyzeEventsLoop([category_time |-> <<>>,
                                  category_title_duration |-> <<>>], evs)
        ctd == acc.category_title_duration
    IN  [category_time |-> acc.category_time,
         top_titles |-> [i \in DOMAIN ctd |-> <<ctd[i][1], TopTitles(ctd[i][2])>>]]

(***************************************************************************)
(* CalendarAnalyzer.analyze_category_breakdown (after the fetch)           *)
(***************************************************************************)
\* Mutant of BreakdownTitle: the breakdown folds the case as the summary does.
BreakdownTitleLowered(event) == Lower(Strip(EventSummary(event)))

\* event.get('summary', 'Untitled').strip()
BreakdownTitle(event) == Strip(EventSummary(event))

\* Mutant of BreakdownStep: only the target category's events enter all_category_time.
BreakdownStepTargetOnly(acc, event, target) ==
    LET summary  == Strip(EventSummary(event))
        category == DictGet(COLOR_CATEGORY_MAP, EventColorId(event), None)
        duration == Duration(event)
    IN  IF IsSkipped(event) \/ category # target
        THEN acc
        ELSE [all_category_time |-> DictAdd(acc.all_category_time, category, duration),
              category_events |->
                  DictSet(acc.category_events, category,
                          DictAdd(DictGet(acc.category_events, category, <<>>),
                                  summary, duration))]

BreakdownStep(acc, event, target) ==
    LET summary  == BreakdownTitle(event)
        category == DictGet(COLOR_CATEGORY_MAP, EventColorId(event), None)
        duration == Duration(event)
    IN  IF IsSkipped(event)
        THEN acc
        ELSE [all_category_time |-> DictAdd(acc.all_category_time, category, duration),
              category_events |->
                  IF category = target
                  THEN DictSet(acc.category_events, category,
                               DictAdd(DictGet(acc.category_events, category, <<>>),
                                       summary, duration))
                  ELSE acc.category_events]

RECURSIVE BreakdownLoop(_, _, _)
BreakdownLoop(acc, evs, target) ==
    IF evs = <<>> THEN acc
    ELSE BreakdownLoop(BreakdownStep(acc, evs[1], target), Tail(evs), target)

\* Mutant of CategoryPercentage: the quotient is taken whatever the total.
CategoryPercentageUnguarded(category_total_hours, total_calendar_hours) ==
    RatPercent(RatInt(category_total_hours), RatInt(total_calendar_hours))

\* (category_total_hours / total_calendar_hours * 100) if total_calendar_hours > 0 else 0
CategoryPercentage(category_total_hours, total_calendar_hours) ==
    IF total_calendar_hours > 0
    THEN RatPercent(RatInt(category_total_hours), RatInt(total_calendar_hours))
    ELSE RatInt(0)

\* Mutant of EventTypePercentages: only a zero total leaves the mapping empty.
EventTypePercentagesUnlessZero(event_types, category_total_hours) ==
    IF category_total_hours # 0
    THEN [i \in DOMAIN event_types |->
             <<event_types[i][1],
               RatPercent(RatInt(event_types[i][2]), RatInt(category_total_hours))>>]
    ELSE <<>>

\* if category_total_hours > 0: event_type_percentages[event_title] =
\* hours / category_total_hours * 100, for every item of event_types
EventTypePercentages(event_types, category_total_hours) ==
    IF category_total_hours > 0
    THEN [i \in DOMAIN event_types |->
             <<event_types[i][1],
               RatPercent(RatInt(event_types[i][2]), RatInt(category_total_hours))>>]
    ELSE <<>>

analyze_category_breakdown(all_events, target) ==
    LET acc == BreakdownLoop([all_category_time |-> <<>>, category_events |-> <<>>],
                             all_events, target)
        category_total_hours == DictGet(acc.all_category_time, target, 0)
        total_calendar_hours == SumSeq(Values(acc.all_category_time))
        category_percentage == CategoryPercentage(category_total_hours, total_calendar_hours)
        event_types == DictGet(acc.category_events, target, <<>>)
        event_type_percentages == EventTypePercentages(event_types, category_total_hours)
    IN  [category_name |-> target,
         category_total_hours |-> category_total_hours,
         category_percentage |-> category_percentage,
         event_types |-> event_types,
         event_type_percentages |-> event_type_percentages,
         top_events |-> TopEvents(event_types),
         total_calendar_hours |-> total_calendar_hours,
         total_events_in_category |-> Len(event_types)]

(***************************************************************************)
(* Specification Spec: one call of analyze_events or of                    *)
(* analyze_category_breakdown on a list of events.                         *)
(***************************************************************************)
\* (start, end) of an event: no start, no end, negative, zero, positive duration.
TimePairs ==
    { <<None, Some(3)>>, <<Some(1), None>>,
      <<Some(1), Some(0)>>, <<Some(1), Some(1)>>, <<Some(1), Some(3)>> }

\* no colorId, a tag of the table, its alias of the default tag, a tag not in the table
ColorIds == {None, Some("7"), Some("1"), Some("99")}

Summaries == {Some(<<" ", "A">>)}

EventPool ==
    {[start |-> tp[1], end |-> tp[2], colorId |-> c, summary |-> s] :
        tp \in TimePairs, c \in ColorIds, s \in Summaries}

Targets == {"Meetings", "Self-Maintenance", "Hobbies"}

Init ==
    /\ pc = "ready"
    /\ events \in SeqsUpTo(EventPool, MaxEvents)
    /\ today = 0
    /\ target_category = ""
    /\ titles = <<>>
    /\ reference_date = None
    /\ num_weeks = 0
    /\ week_offset = 0
    /\ weekly_data = <<>>
    /\ fetch_log = <<>>
    /\ result = <<>>
    /\ NoRange
    /\ NoFetch
    /\ NoCli

AnalyzeEvents ==
    /\ pc = "ready"
    /\ result' = analyze_events(events)
    /\ pc' = "analyze_events"
    /\ UNCHANGED <<cliVars, rangeVars, fetchVars, today, events, target_category, titles, reference_date,
                   num_weeks, week_offset, weekly_data, fetch_log>>

AnalyzeCategoryBreakdown ==
    /\ pc = "ready"
    /\ \E target \in Targets :
          /\ target_category' = target
          /\ result' = analyze_category_breakdown(events, target)
    /\ pc' = "analyze_category_breakdown"
    /\ UNCHANGED <<cliVars, rangeVars, fetchVars, today, events, titles, reference_date,
                   num_weeks, week_offset, weekly_data, fetch_log>>

Next == AnalyzeEvents \/ AnalyzeCategoryBreakdown

Spec == Init /\ [][Next]_vars

(***************************************************************************)
(* Claims about analyze_events and analyze_category_breakdown (Spec)       *)
(***************************************************************************)
\* The validity of an event and its duration, as the claims state them.
TableTags == {"2", "7", "3", "5", "1", "0", "6", "8", "11"}

ClaimTag(e) == IF e.colorId = None THEN "0" ELSE e.colorId[1]

ClaimValid(e) == e.start # None /\ e.end # None /\ ClaimTag(e) \in TableTags

ClaimDuration(e) == e.end[1] - e.start[1]

ClaimCategory(e) == COLOR_CATEGORY_MAP[CHOOSE i \in 1..9 : COLOR_CATEGORY_MAP[i][1] = ClaimTag(e)][2]

\* The sum of the durations of the valid events of evs whose category is in cats.
RECURSIVE ValidDurationSum(_, _)
ValidDurationSum(evs, cats) ==
    IF evs = <<>> THEN 0
    ELSE (IF ClaimValid(evs[1]) /\ ClaimCategory(evs[1]) \in cats
          THEN ClaimDuration(evs[1]) ELSE 0)
         + ValidDurationSum(Tail(evs), cats)

Categories == {COLOR_CATEGORY_MAP[i][2] : i \in 1..9}

RECURSIVE RemoveInvalid(_)
RemoveInvalid(evs) ==
    IF evs = <<>> THEN <<>>
    ELSE (IF ClaimValid(evs[1]) THEN <<evs[1]>> ELSE <<>>) \o RemoveInvalid(Tail(evs))

\* C1: the category totals analyze_events returns sum to the sum of end - start
\* over exactly the valid events, each valid event is counted in exactly one
\* category (its own), and a zero or negative duration is added as it is.
C1_TotalsPartitionValidDurations ==
    pc = "analyze_events" =>
        LET ct == result.category_time IN
        /\ SumSeq(Values(ct)) = ValidDurationSum(events, Categories)
        /\ Keys(ct) = {ClaimCategory(events[i]) :
                          i \in {j \in DOMAIN events : ClaimValid(events[j])}}
        /\ \A k \in DOMAIN ct :
              ct[k][2] = ValidDurationSum(events, {ct[k][1]})

\* A negative and a positive valid event of two categories.
C1_Witness ==
    /\ pc = "analyze_events"
    /\ Len(events) = 2
    /\ ClaimValid(events[1]) /\ ClaimDuration(events[1]) < 0
    /\ ClaimValid(events[2]) /\ ClaimDuration(events[2]) > 0
    /\ ClaimCategory(events[1]) # ClaimCategory(events[2])
    /\ SumSeq(Values(result.category_time)) = 1

\* C2: an event without start, without end or with a tag outside the table is
\* skipped: both analyses return what they return for the events with the
\* invalid ones removed.
C2_InvalidEventsAreSkipped ==
    /\ pc = "analyze_events" => result = analyze_events(RemoveInvalid(events))
    /\ pc = "analyze_category_breakdown" =>
          result = analyze_category_breakdown(RemoveInvalid(events), target_category)

\* An event without an end, then a valid one, analysed by the breakdown.
C2_Witness ==
    /\ pc = "analyze_category_breakdown"
    /\ Len(events) = 2
    /\ events[1].end = None /\ events[1].start # None /\ events[1].colorId = Some("7")
    /\ ClaimValid(events[2])
    /\ target_category = "Meetings"
    /\ result.category_total_hours = 2

(***************************************************************************)
(* Specification SpecRank: the two ranking expressions applied to a        *)
(* title -> hours dict.                                                    *)
(***************************************************************************)
TitleLetters == <<"a", "b", "c", "d", "e", "f", "g", "h", "i", "j", "k", "l", "m">>

RankHours == {1, 2}

\* The dicts of k titles, inserted in the order of TitleLetters.
ActivityMaps ==
    UNION {{[i \in 1..k |-> <<(<<TitleLetters[i]>>), h[i]>>] : h \in [1..k -> RankHours]} :
              k \in 0..MaxTitles}

InitRank ==
    /\ pc = "ready"
    /\ titles \in ActivityMaps
    /\ today = 0
    /\ events = <<>>
    /\ target_category = ""
    /\ reference_date = None
    /\ num_weeks = 0
    /\ week_offset = 0
    /\ weekly_data = <<>>
    /\ fetch_log = <<>>
    /\ result = <<>>
    /\ NoRange
    /\ NoFetch
    /\ NoCli

\* analyze_events, line 100, for one category
RankTopTitles ==
    /\ pc = "ready"
    /\ result' = TopTitles(titles)
    /\ pc' = "top_titles"
    /\ UNCHANGED <<cliVars, rangeVars, fetchVars, today, events, target_category, titles, reference_date,
                   num_weeks, week_offset, weekly_data, fetch_log>>

\* analyze_category_breakdown, line 287
RankTopEvents ==
    /\ pc = "ready"
    /\ result' = TopEvents(titles)
    /\ pc' = "top_events"
    /\ UNCHANGED <<cliVars, rangeVars, fetchVars, today, events, target_category, titles, reference_date,
                   num_weeks, week_offset, weekly_data, fetch_log>>

NextRank == RankTopTitles \/ RankTopEvents

SpecRank == InitRank /\ [][NextRank]_vars

(***************************************************************************)
(* Claims about the ranking (SpecRank)                                     *)
(***************************************************************************)
PositionIn(d, item) == CHOOSE i \in DOMAIN d : d[i] = item

RankedTopN(d, ranked, n) ==
    /\ Len(ranked) = (IF n < Len(d) THEN n ELSE Len(d))
    /\ \A i \in DOMAIN ranked : ranked[i] \in Range(d)
    /\ \A i, j \in DOMAIN ranked : i < j =>
          /\ ranked[i][2] >= ranked[j][2]
          /\ ranked[i][1] # ranked[j][1]
          /\ ranked[i][2] = ranked[j][2] => PositionIn(d, ranked[i]) < PositionIn(d, ranked[j])
    /\ \A x \in Range(d) \ Range(ranked) : \A i \in DOMAIN ranked : x[2] <= ranked[i][2]

\* C3: the ranked list has min(n, number of titles) entries (n = 3 in
\* analyze_events, 10 in the breakdown), all of them entries of the dict, in
\* non-increasing order of hours, no omitted title has more hours than a listed
\* one, and titles of equal hours keep their insertion order.
C3_RankedTopN ==
    /\ pc = "top_titles" => RankedTopN(titles, result, 3)
    /\ pc = "top_events" => RankedTopN(titles, result, 10)

\* Eleven titles ranked by the breakdown: one is cut, ties are among the listed.
C3_Witness ==
    /\ pc = "top_events"
    /\ Len(titles) = 11
    /\ Len(result) = 10
    /\ titles[1][2] = 1 /\ titles[2][2] = 2 /\ titles[3][2] = 1 /\ titles[4][2] = 2
    /\ result[1] = titles[2] /\ result[2] = titles[4]

(***************************************************************************)
(* datetime.date: a date is [year, month, day]; arithmetic with a          *)
(* timedelta goes through the proleptic Gregorian ordinal, as in python.   *)
(***************************************************************************)
IsLeap(y) == y % 4 = 0 /\ (y % 100 # 0 \/ y % 400 = 0)

DaysInMonth(y, m) ==
    IF m = 2 THEN (IF IsLeap(y) THEN 29 ELSE 28)
    ELSE IF m \in {4, 6, 9, 11} THEN 30 ELSE 31

DaysBeforeYear(y) == (y - 1) * 365 + (y - 1) \div 4 - (y - 1) \div 100 + (y - 1) \div 400

RECURSIVE DaysBeforeMonth(_, _)
DaysBeforeMonth(y, m) ==
    IF m = 1 THEN 0 ELSE DaysBeforeMonth(y, m - 1) + DaysInMonth(y, m - 1)

Date(y, m, d) == [year |-> y, month |-> m, day |-> d]

\* date.toordinal()
ToOrdinal(d) == DaysBeforeYear(d.year) + DaysBeforeMonth(d.year, d.month) + d.day

\* date.fromordinal(n)
FromOrdinal(n) ==
    LET y == CHOOSE c \in (n \div 366)..(n \div 365 + 1) :
                 DaysBeforeYear(c) < n /\ n <= DaysBeforeYear(c + 1)
        r == n - DaysBeforeYear(y)
        m == CHOOSE c \in 1..12 :
                 DaysBeforeMonth(y, c) < r /\ r <= DaysBeforeMonth(y, c) + DaysInMonth(y, c)
    IN  Date(y, m, r - DaysBeforeMonth(y, m))

\* date.weekday(): Monday is 0, Sunday is 6
Weekday(d) == (ToOrdinal(d) + 6) % 7

\* date + timedelta(days=n)
DatePlus(d, n) == FromOrdinal(ToOrdinal(d) + n)

\* date - timedelta(days=n)
DateMinus(d, n) == FromOrdinal(ToOrdinal(d) - n)

\* date.replace(day=n)
ReplaceDay(d, n) == Date(d.year, d.month, n)

(***************************************************************************)
(* date_utils.py: DateRangeUtils, and tracker.py: get_date_range           *)
(***************************************************************************)
\* reference_date defaults to date.today()
ReferenceOrToday(ref) == IF ref = None THEN today ELSE Val(ref)

\* Mutant of get_week_range: the Sunday case is lost.
get_week_range_NoSundayCase(ref) ==
    LET r     == ReferenceOrToday(ref)
        start == DateMinus(r, Weekday(r) + 1)
    IN  <<start, DatePlus(start, 6)>>

get_week_range(ref) ==
    LET r     == ReferenceOrToday(ref)
        start == IF Weekday(r) # 6 THEN DateMinus(r, Weekday(r) + 1) ELSE r
        end   == DatePlus(start, 6)
    IN  <<start, end>>

\* Mutant of get_month_range: day 28 is advanced by 2 days instead of 4.
get_month_range_TwoDays(ref) ==
    LET start      == ReplaceDay(ReferenceOrToday(ref), 1)
        next_month == ReplaceDay(DatePlus(ReplaceDay(start, 28), 2), 1)
    IN  <<start, DateMinus(next_month, 1)>>

get_month_range(ref) ==
    LET start      == ReplaceDay(ReferenceOrToday(ref), 1)
        next_month == ReplaceDay(DatePlus(ReplaceDay(start, 28), 4), 1)
        end        == DateMinus(next_month, 1)
    IN  <<start, end>>

\* tracker.get_date_range for the modes that read no input
get_date_range(mode) ==
    IF mode = "week"
    THEN LET start == IF Weekday(today) # 6
                      THEN DateMinus(today, Weekday(today) + 1) ELSE today
         IN  <<start, DatePlus(start, 6)>>
    ELSE LET start      == ReplaceDay(today, 1)
             next_month == ReplaceDay(DatePlus(ReplaceDay(start, 28), 4), 1)
         IN  <<start, DateMinus(next_month, 1)>>

\* date.__gt__: dates compare as (year, month, day)
DateGreater(a, b) ==
    \/ a.year > b.year
    \/ a.year = b.year /\ a.month > b.month
    \/ a.year = b.year /\ a.month = b.month /\ a.day > b.day

\* What a call ends with: a raised exception or a returned value.
Raise(exception) == [raised |-> exception]

Return(value) == [returned |-> value]

Raised(outcome) == "raised" \in DOMAIN outcome

\* Mutant of validate_custom_range: a range of one day is rejected too.
validate_custom_range_Strict(start, end) ==
    IF ~DateGreater(end, start)
    THEN Raise("ValueError")
    ELSE Return(<<start, end>>)

validate_custom_range(start, end) ==
    IF DateGreater(start, end)
    THEN Raise("ValueError")
    ELSE Return(<<start, end>>)

(***************************************************************************)
(* Specification SpecDates: one call of a date-range function.             *)
(***************************************************************************)
\* a century year that is not leap, one that is, a common year, a leap year
SweepYears == {1900, 2000, 2023, 2024}

DateSweep ==
    UNION {{Date(y, m, d) : d \in 1..DaysInMonth(y, m)} : y \in SweepYears, m \in 1..12}

\* reference dates, in days from today
ReferenceShifts == {-366, 0, 1, 45}

InitDates ==
    /\ pc = "ready"
    /\ today \in DateSweep
    /\ reference_date = None
    /\ events = <<>>
    /\ target_category = ""
    /\ titles = <<>>
    /\ num_weeks = 0
    /\ week_offset = 0
    /\ weekly_data = <<>>
    /\ fetch_log = <<>>
    /\ result = <<>>
    /\ NoRange
    /\ NoFetch
    /\ NoCli

References == {None} \cup {Some(DatePlus(today, k)) : k \in ReferenceShifts}

GetWeekRange ==
    /\ pc = "ready"
    /\ \E ref \in References :
          /\ reference_date' = ref
          /\ result' = get_week_range(ref)
    /\ pc' = "get_week_range"
    /\ UNCHANGED <<cliVars, rangeVars, fetchVars, today, events, target_category, titles,
                   num_weeks, week_offset, weekly_data, fetch_log>>

GetMonthRange ==
    /\ pc = "ready"
    /\ \E ref \in References :
          /\ reference_date' = ref
          /\ result' = get_month_range(ref)
    /\ pc' = "get_month_range"
    /\ UNCHANGED <<cliVars, rangeVars, fetchVars, today, events, target_category, titles,
                   num_weeks, week_offset, weekly_data, fetch_log>>

GetDateRangeWeek ==
    /\ pc = "ready"
    /\ result' = get_date_range("week")
    /\ pc' = "get_date_range_week"
    /\ UNCHANGED <<cliVars, rangeVars, fetchVars, today, events, target_category, titles, reference_date,
                   num_weeks, week_offset, weekly_data, fetch_log>>

GetDateRangeMonth ==
    /\ pc = "ready"
    /\ result' = get_date_range("month")
    /\ pc' = "get_date_range_month"
    /\ UNCHANGED <<cliVars, rangeVars, fetchVars, today, events, target_category, titles, reference_date,
                   num_weeks, week_offset, weekly_data, fetch_log>>

\* start and end of a custom range, in days from today
CustomShifts == {-366, 0, 9}

ValidateCustomRange ==
    /\ pc = "ready"
    /\ \E ks \in CustomShifts, ke \in CustomShifts :
          LET start   == DatePlus(today, ks)
              end     == DatePlus(today, ke)
              outcome == validate_custom_range(start, end)
          IN  /\ arg_start_date' = Some(start)
              /\ arg_end_date' = Some(end)
              /\ pc' = IF Raised(outcome) THEN outcome.raised ELSE "validate_custom_range"
              /\ result' = IF Raised(outcome) THEN result ELSE outcome.returned
    /\ UNCHANGED <<cliVars, fetchVars, today, events, target_category, titles, reference_date,
                   num_weeks, week_offset, weekly_data, fetch_log>>

NextDates ==
    \/ GetWeekRange
    \/ GetMonthRange
    \/ GetDateRangeWeek
    \/ GetDateRangeMonth
    \/ ValidateCustomRange

SpecDates == InitDates /\ [][NextDates]_vars

(***************************************************************************)
(* Claims about the date ranges (SpecDates)                                *)
(***************************************************************************)
\* Ordinal 1 (0001-01-01) is a Monday: ordinals divisible by 7 are Sundays.
IsSunday(d) == ToOrdinal(d) % 7 = 0

IsSaturday(d) == ToOrdinal(d) % 7 = 6

WeekOf(ref, start, end) ==
    /\ IsSunday(start)
    /\ IsSaturday(end)
    /\ ToOrdinal(end) - ToOrdinal(start) = 6
    /\ ToOrdinal(start) <= ToOrdinal(ref) /\ ToOrdinal(ref) <= ToOrdinal(end)
    /\ IsSunday(ref) => start = ref

\* C9: get_week_range (and the week mode of get_date_range) returns a Sunday
\* start and a Saturday end 6 days later with the reference date between them;
\* a Sunday reference date is the start.
C9_WeekRange ==
    /\ pc = "get_week_range" =>
          WeekOf(IF reference_date = None THEN today ELSE reference_date[1],
                 result[1], result[2])
    /\ pc = "get_date_range_week" => WeekOf(today, result[1], result[2])

\* A Sunday reference date that is not today.
C9_Witness ==
    /\ pc = "get_week_range"
    /\ reference_date = Some(Date(2024, 3, 3))
    /\ today # Date(2024, 3, 3)
    /\ result = <<Date(2024, 3, 3), Date(2024, 3, 9)>>

MonthLength(y, m) ==
    CASE m \in {1, 3, 5, 7, 8, 10, 12} -> 31
      [] m \in {4, 6, 9, 11} -> 30
      [] m = 2 /\ ((y % 4 = 0 /\ y % 100 # 0) \/ y % 400 = 0) -> 29
      [] OTHER -> 28

\* C10: get_month_range returns day 1 and the last day of the reference date's
\* month, whatever the month's length, December and leap Februaries included.
C10_MonthRange ==
    pc = "get_month_range" =>
        LET ref == IF reference_date = None THEN today ELSE reference_date[1]
        IN  /\ result[1] = Date(ref.year, ref.month, 1)
            /\ result[2] = Date(ref.year, ref.month, MonthLength(ref.year, ref.month))

\* A reference date in the February of a leap year.
C10_Witness ==
    /\ pc = "get_month_range"
    /\ reference_date = Some(Date(2024, 2, 10))
    /\ result = <<Date(2024, 2, 1), Date(2024, 2, 29)>>

\* C11: validate_custom_range returns (start_date, end_date) unchanged when
\* start_date <= end_date, also when they are equal, and raises, returning no
\* range, when start_date > end_date, as for (2024-03-10, 2024-03-01).
C11_CustomRange ==
    LET start == arg_start_date[1]
        end   == arg_end_date[1]
    IN  /\ pc = "validate_custom_range" =>
              /\ ToOrdinal(start) <= ToOrdinal(end)
              /\ result = <<start, end>>
        /\ pc = "ValueError" =>
              /\ ToOrdinal(start) > ToOrdinal(end)
              /\ result = <<>>
        /\ arg_start_date # None => pc \in {"validate_custom_range", "ValueError"}

\* The range of the example, rejected.
C11_Witness ==
    /\ pc = "ValueError"
    /\ arg_start_date = Some(Date(2024, 3, 10))
    /\ arg_end_date = Some(Date(2024, 3, 1))
    /\ result = <<>>

(***************************************************************************)
(* date_utils.py: DateRangeUtils.dates_to_iso_range                        *)
(***************************************************************************)
\* datetime.min.time()
MinTime == [hour |-> 0, minute |-> 0, second |-> 0]

\* datetime.combine(d, t).isoformat() + 'Z': the text "YYYY-MM-DDTHH:MM:SSZ"
IsoFormatZ(d, t) == [date |-> d, time |-> t, suffix |-> "Z"]

\* Mutant of dates_to_iso_range: time_max is the midnight that starts end_date.
dates_to_iso_range_EndMidnight(start_date, end_date) ==
    <<IsoFormatZ(start_date, MinTime), IsoFormatZ(end_date, MinTime)>>

dates_to_iso_range(start_date, end_date) ==
    LET time_min == IsoFormatZ(start_date, MinTime)
        time_max == IsoFormatZ(DatePlus(end_date, 1), MinTime)
    IN  <<time_min, time_max>>

(***************************************************************************)
(* CalendarAnalyzer.analyze_weekly_trends                                  *)
(***************************************************************************)
\* Mutant of LastSaturday: on a Saturday the Saturday a week earlier is taken.
LastSaturdayBeforeToday(t) ==
    LET days_since_saturday == (Weekday(t) - 5) % 7
    IN  DateMinus(t, IF days_since_saturday = 0 THEN 7 ELSE days_since_saturday)

LastSaturday(t) ==
    LET days_since_saturday == (Weekday(t) - 5) % 7
    IN  IF Weekday(t) # 5 THEN DateMinus(t, days_since_saturday) ELSE t

\* week_end = last_saturday - timedelta(days=(week_offset) * 7)
WeekEnd(last_saturday, offset) == DateMinus(last_saturday, offset * 7)

\* Mutant of WeekStart: the window starts 7 days before its end.
WeekStartSevenBefore(week_end) == DateMinus(week_end, 7)

\* week_start = week_end - timedelta(days=6)
WeekStart(week_end) == DateMinus(week_end, 6)

\* Mutant of WeekInfo: total_hours is the total of the week's first category.
WeekInfoFirstCategory(week_start, week_end, analysis) ==
    [week_start |-> week_start,
     week_end |-> week_end,
     category_time |-> analysis.category_time,
     top_titles |-> analysis.top_titles,
     total_hours |-> IF analysis.category_time = <<>> THEN 0
                     ELSE analysis.category_time[1][2]]

WeekInfo(week_start, week_end, analysis) ==
    [week_start |-> week_start,
     week_end |-> week_end,
     category_time |-> analysis.category_time,
     top_titles |-> analysis.top_titles,
     total_hours |-> SumSeq(Values(analysis.category_time))]

\* Mutant of CategoryHours: a week without the category adds no data point.
CategoryHoursPresentOnly(wd, category) ==
    LET has == SelectSeq(wd, LAMBDA w : category \in Keys(w.category_time))
    IN  [i \in DOMAIN has |-> DictGet(has[i].category_time, category, 0)]

\* [week_data['category_time'].get(category, 0.0) for week_data in weekly_data]
CategoryHours(wd, category) ==
    [i \in DOMAIN wd |-> DictGet(wd[i].category_time, category, 0)]

\* for category in COLOR_CATEGORY_MAP.values(): all_category_hours[category] = ...
RECURSIVE AllCategoryHours(_, _, _)
AllCategoryHours(acc, categories, wd) ==
    IF categories = <<>> THEN acc
    ELSE AllCategoryHours(DictSet(acc, categories[1], CategoryHours(wd, categories[1])),
                          Tail(categories), wd)

\* sum(hours_list[-2:]) / 2
RecentAvg(hours_list) ==
    Rat(SumSeq(SubSeq(hours_list, Len(hours_list) - 1, Len(hours_list))), 2)

\* Mutant of OlderAvg: the average of all weeks but the last.
OlderAvgAllButLast(hours_list) ==
    Rat(SumSeq(SubSeq(hours_list, 1, Len(hours_list) - 1)), Len(hours_list) - 1)

\* sum(hours_list[:-2]) / max(1, len(hours_list) - 2) if len(hours_list) > 2 else hours_list[0]
OlderAvg(hours_list) ==
    IF Len(hours_list) > 2
    THEN Rat(SumSeq(SubSeq(hours_list, 1, Len(hours_list) - 2)), Max(1, Len(hours_list) - 2))
    ELSE RatInt(hours_list[1])

\* Mutant of Direction: the thresholds are inclusive.
DirectionInclusive(trend_change) ==
    IF ~RatLt(trend_change, Rat(1, 2)) THEN "increasing"
    ELSE IF ~RatGt(trend_change, Rat(-1, 2)) THEN "decreasing"
    ELSE "stable"

\* 'increasing' if trend_change > 0.5 else 'decreasing' if trend_change < -0.5 else 'stable'
Direction(trend_change) ==
    IF RatGt(trend_change, Rat(1, 2)) THEN "increasing"
    ELSE IF RatLt(trend_change, Rat(-1, 2)) THEN "decreasing"
    ELSE "stable"

TrendRecord(hours_list) ==
    IF Len(hours_list) >= 2
    THEN LET recent_avg   == RecentAvg(hours_list)
             older_avg    == OlderAvg(hours_list)
             trend_change == RatSub(recent_avg, older_avg)
             percentage_change ==
                 IF RatGt(older_avg, RatInt(0))
                 THEN RatPercent(trend_change, older_avg)
                 ELSE RatInt(0)
         IN  [hours_list |-> hours_list,
              trend_change |-> trend_change,
              percentage_change |-> percentage_change,
              recent_avg |-> recent_avg,
              older_avg |-> older_avg,
              direction |-> Direction(trend_change)]
    ELSE [hours_list |-> hours_list,
          trend_change |-> RatInt(0),
          percentage_change |-> RatInt(0),
          recent_avg |-> RatInt(IF hours_list # <<>> THEN hours_list[1] ELSE 0),
          older_avg |-> RatInt(IF hours_list # <<>> THEN hours_list[1] ELSE 0),
          direction |-> "stable"]

Trends(all_category_hours) ==
    [i \in DOMAIN all_category_hours |->
        <<all_category_hours[i][1], TrendRecord(all_category_hours[i][2])>>]

\* [cat for cat, data in trends.items() if data['direction'] == direction]
CategoriesWithDirection(trends, direction) ==
    LET hit == SelectSeq(trends, LAMBDA t : t[2].direction = direction)
    IN  [i \in DOMAIN hit |-> hit[i][1]]

\* Mutant of MostImproved: the first category of trends, whatever its change.
MostImprovedFirstCategory(trends) ==
    IF trends = <<>> THEN None ELSE Some(trends[1][1])

\* max(trends.items(), key=lambda x: x[1]['trend_change'])[0]: the first maximum
MostImproved(trends) ==
    IF trends = <<>> THEN None
    ELSE LET i == CHOOSE k \in DOMAIN trends :
                     /\ \A j \in DOMAIN trends :
                           ~RatGt(trends[j][2].trend_change, trends[k][2].trend_change)
                     /\ \A j \in 1..(k - 1) :
                           RatLt(trends[j][2].trend_change, trends[k][2].trend_change)
         IN  Some(trends[i][1])

\* min(trends.items(), key=lambda x: x[1]['trend_change'])[0]: the first minimum
MostDeclined(trends) ==
    IF trends = <<>> THEN None
    ELSE LET i == CHOOSE k \in DOMAIN trends :
                     /\ \A j \in DOMAIN trends :
                           ~RatLt(trends[j][2].trend_change, trends[k][2].trend_change)
                     /\ \A j \in 1..(k - 1) :
                           RatGt(trends[j][2].trend_change, trends[k][2].trend_change)
         IN  Some(trends[i][1])

Summary(n, trends) ==
    [total_weeks |-> n,
     increasing_categories |-> CategoriesWithDirection(trends, "increasing"),
     decreasing_categories |-> CategoriesWithDirection(trends, "decreasing"),
     most_improved |-> MostImproved(trends),
     most_declined |-> MostDeclined(trends)]

(***************************************************************************)
(* Specification SpecTrends: one call of analyze_weekly_trends, one step   *)
(* per week fetched and analysed.                                          *)
(***************************************************************************)
\* Monday 2024-02-26 .. Sunday 2024-03-03
Todays == {DatePlus(Date(2024, 2, 26), i) : i \in 0..6}

TrendEvent(color, hours) ==
    [start |-> Some(0), end |-> Some(hours), colorId |-> color, summary |-> Some(<<"A">>)]

\* What fetch_events returns for a week.
WeekFetches ==
    { <<>>,
      <<TrendEvent(Some("7"), 10)>>,
      <<TrendEvent(Some("7"), 11)>>,
      <<TrendEvent(Some("7"), 20)>>,
      <<TrendEvent(Some("99"), 5), TrendEvent(None, -1), TrendEvent(Some("2"), 3)>>,
      <<TrendEvent(Some("99"), 5)>> }

InitTrends ==
    /\ pc = "ready"
    /\ today \in Todays
    /\ events = <<>>
    /\ target_category = ""
    /\ titles = <<>>
    /\ reference_date = None
    /\ num_weeks = 0
    /\ week_offset = 0
    /\ weekly_data = <<>>
    /\ fetch_log = <<>>
    /\ result = <<>>
    /\ NoRange
    /\ NoFetch
    /\ NoCli

\* The call, up to the first test of the loop over week_offset.
StartWeeklyTrends ==
    /\ pc = "ready"
    /\ \E n \in 1..MaxWeeks :
          /\ num_weeks' = n
          /\ week_offset' = n - 1
    /\ weekly_data' = <<>>
    /\ pc' = "weeks"
    /\ UNCHANGED <<cliVars, rangeVars, fetchVars, today, events, target_category, titles, reference_date,
                   fetch_log, result>>

\* One iteration of the loop: analyze_calendar_range fetches and analyses a week.
AnalyzeWeek ==
    /\ pc = "weeks"
    /\ week_offset >= 0
    /\ \E fetched \in WeekFetches :
          LET week_end   == WeekEnd(LastSaturday(today), week_offset)
              week_start == WeekStart(week_end)
          IN  /\ fetch_log' = Append(fetch_log, dates_to_iso_range(week_start, week_end))
              /\ events' = fetched
              /\ weekly_data' =
                     Append(weekly_data,
                            WeekInfo(week_start, week_end, analyze_events(fetched)))
    /\ week_offset' = week_offset - 1
    /\ UNCHANGED <<cliVars, rangeVars, fetchVars, pc, today, target_category, titles, reference_date, num_weeks, result>>

\* After the loop: the back-fill, the trends and the summary.
FinishWeeklyTrends ==
    /\ pc = "weeks"
    /\ week_offset < 0
    /\ LET trends == Trends(AllCategoryHours(<<>>, Values(COLOR_CATEGORY_MAP), weekly_data))
       IN  result' = [weekly_data |-> weekly_data,
                      trends |-> trends,
                      summary |-> Summary(num_weeks, trends)]
    /\ pc' = "analyze_weekly_trends"
    /\ UNCHANGED <<cliVars, rangeVars, fetchVars, today, events, target_category, titles, reference_date,
                   num_weeks, week_offset, weekly_data, fetch_log>>

\* start and end of a date range, in days from today
IsoShifts == {-366, -1, 0, 1, 30}

\* A call of dates_to_iso_range on a date range of the caller's.
DatesToIsoRange ==
    /\ pc = "ready"
    /\ \E ks \in IsoShifts, ke \in IsoShifts :
          /\ arg_start_date' = Some(DatePlus(today, ks))
          /\ arg_end_date' = Some(DatePlus(today, ke))
          /\ result' = dates_to_iso_range(DatePlus(today, ks), DatePlus(today, ke))
    /\ pc' = "dates_to_iso_range"
    /\ UNCHANGED <<cliVars, fetchVars, today, events, target_category, titles, reference_date,
                   num_weeks, week_offset, weekly_data, fetch_log>>

\* A call of analyze_category_breakdown whose fetch returns a week's events.
BreakdownOfFetched ==
    /\ pc = "ready"
    /\ \E fetched \in WeekFetches, target \in Targets :
          /\ events' = fetched
          /\ target_category' = target
          /\ result' = analyze_category_breakdown(fetched, target)
    /\ pc' = "analyze_category_breakdown"
    /\ UNCHANGED <<cliVars, rangeVars, fetchVars, today, titles, reference_date,
                   num_weeks, week_offset, weekly_data, fetch_log>>

NextTrends ==
    \/ StartWeeklyTrends
    \/ AnalyzeWeek
    \/ FinishWeeklyTrends
    \/ DatesToIsoRange
    \/ BreakdownOfFetched

SpecTrends == InitTrends /\ [][NextTrends]_vars

(***************************************************************************)
(* Claims about analyze_weekly_trends (SpecTrends)                         *)
(***************************************************************************)
Returned == pc = "analyze_weekly_trends"

EightCategories ==
    {"Professional Tasks", "Meetings", "Social Connections", "Emotional Recharge",
     "Self-Maintenance", "Life Admin", "Mental Struggles", "Romance"}

\* C4: trends has exactly the 8 categories of the table as keys, every
\* hours_list has num_weeks entries, and entry i is week i's total of the
\* category, 0 when the week has no event of it.
C4_TrendsBackFilled ==
    Returned =>
        /\ Len(result.trends) = 8
        /\ Keys(result.trends) = EightCategories
        /\ \A k \in DOMAIN result.trends :
              LET category   == result.trends[k][1]
                  hours_list == result.trends[k][2].hours_list
              IN  /\ Len(hours_list) = num_weeks
                  /\ \A i \in 1..num_weeks :
                        LET ct == result.weekly_data[i].category_time
                        IN  hours_list[i] =
                                (IF \E j \in DOMAIN ct : ct[j][1] = category
                                 THEN ct[CHOOSE j \in DOMAIN ct : ct[j][1] = category][2]
                                 ELSE 0)

TrendOf(category) ==
    result.trends[CHOOSE k \in DOMAIN result.trends : result.trends[k][1] = category][2]

\* Meetings in the newest week only; no week has Romance.
C4_Witness ==
    /\ Returned
    /\ num_weeks = 3
    /\ TrendOf("Meetings").hours_list = <<0, 0, 20>>
    /\ TrendOf("Romance").hours_list = <<0, 0, 0>>

\* q = n / d
IsQuotient(q, n, d) == q.den > 0 /\ q.num * d = n * q.den

\* C5: with L >= 2 weeks, recent_avg is the mean of the last 2 entries,
\* older_avg the mean of the entries before them (the first entry when L = 2),
\* trend_change their difference, and percentage_change is
\* trend_change / older_avg * 100 when older_avg > 0 and 0 otherwise;
\* [10, 10, 20] gives 15, 10 and 5.
C5_TrendAverages ==
    Returned =>
        \A k \in DOMAIN result.trends :
            LET t == result.trends[k][2]
                h == t.hours_list
                L == Len(h)
                recent == h[L - 1] + h[L]
                older  == IF L > 2 THEN SumSeq(SubSeq(h, 1, L - 2)) ELSE h[1]
                count  == IF L > 2 THEN L - 2 ELSE 1
            IN  L >= 2 =>
                  /\ IsQuotient(t.recent_avg, recent, 2)
                  /\ IsQuotient(t.older_avg, older, count)
                  /\ IsQuotient(t.trend_change, recent * count - 2 * older, 2 * count)
                  /\ older > 0 =>
                        IsQuotient(t.percentage_change,
                                   (recent * count - 2 * older) * 100, 2 * older)
                  /\ older <= 0 => t.percentage_change.num = 0
                  /\ h = <<10, 10, 20>> =>
                        /\ IsQuotient(t.recent_avg, 15, 1)
                        /\ IsQuotient(t.older_avg, 10, 1)
                        /\ IsQuotient(t.trend_change, 5, 1)

\* The weeks of the example and their percentage_change of 50.
C5_Witness ==
    /\ Returned
    /\ TrendOf("Meetings").hours_list = <<10, 10, 20>>
    /\ IsQuotient(TrendOf("Meetings").percentage_change, 50, 1)

\* C6: direction is 'increasing' exactly when trend_change > 0.5, 'decreasing'
\* exactly when trend_change < -0.5 and 'stable' otherwise, so that 0.5 and
\* -0.5 are 'stable'.
C6_DirectionThresholds ==
    Returned =>
        \A k \in DOMAIN result.trends :
            LET t  == result.trends[k][2]
                tc == t.trend_change
            IN  /\ tc.den > 0
                /\ t.direction \in {"increasing", "decreasing", "stable"}
                /\ t.direction = "increasing" <=> 2 * tc.num > tc.den
                /\ t.direction = "decreasing" <=> 2 * tc.num < -tc.den
                /\ t.direction = "stable" <=> (2 * tc.num <= tc.den /\ 2 * tc.num >= -tc.den)

\* A trend_change of exactly 0.5 (Meetings) next to one of exactly -0.5.
C6_Witness ==
    /\ Returned
    /\ \E k \in DOMAIN result.trends :
          LET tc == result.trends[k][2].trend_change
          IN  2 * tc.num = tc.den /\ result.trends[k][2].direction = "stable"
    /\ \E k \in DOMAIN result.trends :
          LET tc == result.trends[k][2].trend_change
          IN  2 * tc.num = -tc.den /\ result.trends[k][2].direction = "stable"

\* The window of fetch_log[i], as dates: from the day of time_min to the day
\* before time_max.
FetchedWindow(i) == <<fetch_log[i][1].date, DateMinus(fetch_log[i][2].date, 1)>>

\* C7: num_weeks windows are fetched and recorded oldest first; the last ends on
\* the most recent Saturday on or before today, each earlier one ends 7 days
\* before the next, and consecutive windows neither overlap nor leave a gap.
C7_WindowsOldestFirst ==
    Returned =>
        LET wd == result.weekly_data IN
        /\ Len(wd) = num_weeks
        /\ Len(fetch_log) = num_weeks
        /\ \A i \in 1..num_weeks : FetchedWindow(i) = <<wd[i].week_start, wd[i].week_end>>
        /\ IsSaturday(wd[num_weeks].week_end)
        /\ ToOrdinal(today) - ToOrdinal(wd[num_weeks].week_end) \in 0..6
        /\ \A i \in 1..(num_weeks - 1) :
              /\ ToOrdinal(wd[i + 1].week_end) - ToOrdinal(wd[i].week_end) = 7
              /\ ToOrdinal(wd[i + 1].week_start) = ToOrdinal(wd[i].week_end) + 1

\* Three weeks analysed on a Saturday: the newest window ends today.
C7_Witness ==
    /\ Returned
    /\ num_weeks = 3
    /\ today = Date(2024, 3, 2)
    /\ result.weekly_data[3].week_end = today
    /\ result.weekly_data[1].week_start = Date(2024, 2, 11)

\* C8 as stated: start_date and end_date of every window are exactly 7 days
\* apart and end_date is a Saturday.
C8_SevenDaysApart ==
    \A i \in DOMAIN weekly_data :
        /\ ToOrdinal(weekly_data[i].week_end) - ToOrdinal(weekly_data[i].week_start) = 7
        /\ IsSaturday(weekly_data[i].week_end)

\* C8 amended: start_date and end_date of every window are exactly 6 days apart
\* (the window has 7 days, both ends included: Sunday to Saturday) and end_date
\* is a Saturday.
C8_SixDaysApart ==
    \A i \in DOMAIN weekly_data :
        /\ ToOrdinal(weekly_data[i].week_end) - ToOrdinal(weekly_data[i].week_start) = 6
        /\ IsSunday(weekly_data[i].week_start)
        /\ IsSaturday(weekly_data[i].week_end)

\* A window produced on a Wednesday.
C8_Witness ==
    /\ today = Date(2024, 2, 28)
    /\ Len(weekly_data) = 2
    /\ weekly_data[2].week_start = Date(2024, 2, 18)
    /\ weekly_data[2].week_end = Date(2024, 2, 24)

(***************************************************************************)
(* Claims about dates_to_iso_range (SpecTrends)                            *)
(***************************************************************************)
\* The instant a timestamp denotes, in seconds since 2000-01-01T00:00:00.
Instant(t) ==
    (ToOrdinal(t.date) - ToOrdinal(Date(2000, 1, 1))) * 86400
        + t.time.hour * 3600 + t.time.minute * 60 + t.time.second

IsMidnightOf(t, d) ==
    t.date = d /\ t.time = [hour |-> 0, minute |-> 0, second |-> 0] /\ t.suffix = "Z"

\* C12: for start_date <= end_date, time_min is the midnight that starts
\* start_date and time_max the midnight that starts the day after end_date, so
\* [time_min, time_max) is non-empty and has end_date - start_date + 1 whole
\* days; the intervals of consecutive trend weeks meet in one instant.
C12_HalfOpenInterval ==
    /\ (pc = "dates_to_iso_range" /\ ToOrdinal(arg_start_date[1]) <= ToOrdinal(arg_end_date[1])) =>
          /\ IsMidnightOf(result[1], arg_start_date[1])
          /\ \E d \in {result[2].date} :
                /\ ToOrdinal(d) = ToOrdinal(arg_end_date[1]) + 1
                /\ IsMidnightOf(result[2], d)
          /\ Instant(result[1]) < Instant(result[2])
          /\ Instant(result[2]) - Instant(result[1]) =
                 (ToOrdinal(arg_end_date[1]) - ToOrdinal(arg_start_date[1]) + 1) * 86400
    /\ \A i \in DOMAIN fetch_log :
          /\ IsMidnightOf(fetch_log[i][1], weekly_data[i].week_start)
          /\ Instant(fetch_log[i][2]) - Instant(fetch_log[i][1]) = 7 * 86400
          /\ i > 1 => Instant(fetch_log[i - 1][2]) = Instant(fetch_log[i][1])

\* A range that ends on a leap day: time_max is the midnight that starts March.
C12_Witness ==
    /\ pc = "dates_to_iso_range"
    /\ arg_start_date = Some(Date(2024, 2, 28))
    /\ arg_end_date = Some(Date(2024, 2, 29))
    /\ result[2].date = Date(2024, 3, 1)

(***************************************************************************)
(* Claims about windows without valid events (SpecTrends)                  *)
(***************************************************************************)
NoValidEvent(evs) == \A i \in DOMAIN evs : ~ClaimValid(evs[i])

IsZero(q) == q.den # 0 /\ q.num = 0

\* C13: a window without valid events makes no analysis fail: analyze_events
\* returns empty totals, the breakdown returns zero hours, a zero percentage
\* and empty mappings, analyze_weekly_trends returns percentage_change 0 for
\* every category, and no quotient of any result has a zero divisor.
C13_EmptyWindows ==
    /\ (pc = "weeks" /\ weekly_data # <<>> /\ NoValidEvent(events)) =>
          LET week == weekly_data[Len(weekly_data)]
          IN  week.category_time = <<>> /\ week.top_titles = <<>> /\ week.total_hours = 0
    /\ pc = "analyze_category_breakdown" =>
          /\ result.category_percentage.den # 0
          /\ \A i \in DOMAIN result.event_type_percentages :
                result.event_type_percentages[i][2].den # 0
          /\ NoValidEvent(events) =>
                /\ result.category_total_hours = 0
                /\ result.total_calendar_hours = 0
                /\ IsZero(result.category_percentage)
                /\ result.event_types = <<>>
                /\ result.event_type_percentages = <<>>
                /\ result.top_events = <<>>
    /\ Returned =>
          \A k \in DOMAIN result.trends :
              LET t == result.trends[k][2]
              IN  /\ t.recent_avg.den # 0 /\ t.older_avg.den # 0
                  /\ t.trend_change.den # 0 /\ t.percentage_change.den # 0
                  /\ (\A i \in DOMAIN result.weekly_data :
                         result.weekly_data[i].category_time = <<>>)
                       => IsZero(t.percentage_change)

\* The breakdown of a window whose only event has a tag outside the table.
C13_Witness ==
    /\ pc = "analyze_category_breakdown"
    /\ Len(events) = 1
    /\ NoValidEvent(events)
    /\ target_category = "Meetings"
    /\ IsZero(result.category_percentage)

(***************************************************************************)
(* CalendarAnalyzer.fetch_events, one page request at a time               *)
(***************************************************************************)
\* events_result.get('items', [])
Items(events_result) ==
    IF events_result.items = None THEN <<>> ELSE Val(events_result.items)

\* events_result.get('nextPageToken')
NextPageToken(events_result) == events_result.nextPageToken

\* not page_token: None and the empty text are false
NotToken(token) == IF token = None THEN TRUE ELSE Val(token) = ""

\* Mutant of ListRequest: every request asks for the first page.
ListRequestFirstPage(time_min, time_max, token) ==
    [calendarId |-> "primary", timeMin |-> time_min, timeMax |-> time_max,
     singleEvents |-> TRUE, orderBy |-> "startTime", maxResults |-> 250,
     pageToken |-> None]

\* self.service.events().list(...)
ListRequest(time_min, time_max, token) ==
    [calendarId |-> "primary", timeMin |-> time_min, timeMax |-> time_max,
     singleEvents |-> TRUE, orderBy |-> "startTime", maxResults |-> 250,
     pageToken |-> token]

\* The request the loop issues next, from fetch_events' arguments and page_token.
NextRequest == ListRequest(Val(fetch_time_min), Val(fetch_time_max), page_token)

(***************************************************************************)
(* SpecFetch: the three entry points over a paged event source             *)
(***************************************************************************)
FetchTodays == {Date(2024, 2, 28), Date(2024, 3, 2)}

\* start and end of the caller's date range, in days from today
FetchShifts == {-6, 0}

FetchTargets == {"Meetings", "Hobbies"}

\* The 'items' of a page: the key may be missing.
PageItems ==
    { None,
      Some(<<TrendEvent(Some("7"), 1)>>),
      Some(<<TrendEvent(Some("99"), 2)>>) }

\* The token the source hands out with its n-th page names the page after it.
ContinuationToken(n) == Some("page" \o ToString(n + 1))

FinalTokens == {None, Some("")}

\* The source answers with a continuation token on fewer than MaxPages
\* responses of one fetch.
ContinuingPages ==
    IF Len(pages) + 1 < MaxPages
    THEN {[items |-> i, nextPageToken |-> ContinuationToken(Len(pages) + 1)] : i \in PageItems}
    ELSE {}

LastPages == {[items |-> i, nextPageToken |-> t] : i \in PageItems, t \in FinalTokens}

InitFetch ==
    /\ pc = "ready"
    /\ today \in FetchTodays
    /\ events = <<>>
    /\ target_category = ""
    /\ titles = <<>>
    /\ reference_date = None
    /\ num_weeks = 0
    /\ week_offset = 0
    /\ weekly_data = <<>>
    /\ fetch_log = <<>>
    /\ result = <<>>
    /\ NoRange
    /\ NoFetch
    /\ NoCli

\* The caller's dates_to_iso_range(start_date, end_date), and fetch_events up
\* to its loop: all_events = [], page_token = None
EnterFetchEvents(entry, start_date, end_date) ==
    /\ caller' = entry
    /\ arg_start_date' = Some(start_date)
    /\ arg_end_date' = Some(end_date)
    /\ fetch_time_min' = Some(dates_to_iso_range(start_date, end_date)[1])
    /\ fetch_time_max' = Some(dates_to_iso_range(start_date, end_date)[2])
    /\ page_token' = None
    /\ fetch_all_events' = <<>>
    /\ requests' = <<>>
    /\ pages' = <<>>
    /\ pc' = "fetch_events"

\* analyze_calendar_range(start_date, end_date) up to fetch_events' first request.
CallAnalyzeCalendarRange ==
    /\ pc = "ready"
    /\ \E ks \in FetchShifts, ke \in FetchShifts :
          EnterFetchEvents("analyze_calendar_range", DatePlus(today, ks), DatePlus(today, ke))
    /\ UNCHANGED <<cliVars, today, events, target_category, titles, reference_date,
                   num_weeks, week_offset, weekly_data, fetch_log, result>>

\* analyze_category_breakdown(start_date, end_date, target_category) up to
\* fetch_events' first request.
CallAnalyzeCategoryBreakdown ==
    /\ pc = "ready"
    /\ \E ks \in FetchShifts, target \in FetchTargets :
          /\ target_category' = target
          /\ EnterFetchEvents("analyze_category_breakdown", DatePlus(today, ks), today)
    /\ UNCHANGED <<cliVars, today, events, titles, reference_date,
                   num_weeks, week_offset, weekly_data, fetch_log, result>>

\* analyze_weekly_trends(num_weeks) up to the first test of its loop.
CallAnalyzeWeeklyTrends ==
    /\ pc = "ready"
    /\ \E n \in 1..MaxFetchWeeks :
          /\ num_weeks' = n
          /\ week_offset' = n - 1
    /\ weekly_data' = <<>>
    /\ pc' = "weeks"
    /\ UNCHANGED <<cliVars, rangeVars, fetchVars, today, events, target_category, titles,
                   reference_date, fetch_log, result>>

\* One iteration of the loop over week_offset, up to fetch_events' first request.
CallAnalyzeWeek ==
    /\ pc = "weeks"
    /\ week_offset >= 0
    /\ LET week_end == WeekEnd(LastSaturday(today), week_offset)
       IN  EnterFetchEvents("analyze_weekly_trends", WeekStart(week_end), week_end)
    /\ UNCHANGED <<cliVars, today, events, target_category, titles, reference_date,
                   num_weeks, week_offset, weekly_data, fetch_log, result>>

\* One iteration of fetch_events' loop whose response carries a token.
ListPage ==
    /\ pc = "fetch_events"
    /\ \E events_result \in ContinuingPages :
          /\ ~NotToken(NextPageToken(events_result))
          /\ requests' = Append(requests, NextRequest)
          /\ pages' = Append(pages, events_result)
          /\ fetch_all_events' = fetch_all_events \o Items(events_result)
          /\ page_token' = NextPageToken(events_result)
    /\ UNCHANGED <<cliVars, rangeVars, caller, fetch_time_min, fetch_time_max, pc, today, events, target_category, titles,
                   reference_date, num_weeks, week_offset, weekly_data, fetch_log,
                   result>>

\* The iteration that breaks: fetch_events returns all_events and its caller
\* runs on, to its return or to the next test of the loop over week_offset.
ListLastPage ==
    /\ pc = "fetch_events"
    /\ \E events_result \in LastPages :
          LET all_events == fetch_all_events \o Items(events_result)
          IN  /\ NotToken(NextPageToken(events_result))
              /\ requests' = Append(requests, NextRequest)
              /\ pages' = Append(pages, events_result)
              /\ fetch_all_events' = all_events
              /\ page_token' = NextPageToken(events_result)
              /\ fetch_log' = Append(fetch_log, <<NextRequest.timeMin, NextRequest.timeMax>>)
              /\ CASE caller = "analyze_calendar_range" ->
                        /\ result' = analyze_events(all_events)
                        /\ pc' = "analyze_calendar_range"
                        /\ UNCHANGED <<weekly_data, week_offset>>
                   [] caller = "analyze_category_breakdown" ->
                        /\ result' = analyze_category_breakdown(all_events, target_category)
                        /\ pc' = "analyze_category_breakdown"
                        /\ UNCHANGED <<weekly_data, week_offset>>
                   [] caller = "analyze_weekly_trends" ->
                        /\ weekly_data' =
                               Append(weekly_data,
                                      WeekInfo(Val(arg_start_date), Val(arg_end_date),
                                               analyze_events(all_events)))
                        /\ week_offset' = week_offset - 1
                        /\ pc' = "weeks"
                        /\ UNCHANGED result
    /\ UNCHANGED <<cliVars, rangeVars, caller, fetch_time_min, fetch_time_max, today, events,
                   target_category, titles, reference_date, num_weeks>>

\* Mutant of ListFails: the failure is swallowed and what was fetched is analysed.
ListFailsReturnsPartial ==
    /\ pc = "fetch_events"
    /\ requests' = Append(requests, NextRequest)
    /\ result' = analyze_events(fetch_all_events)
    /\ pc' = "HttpError"
    /\ UNCHANGED <<cliVars, rangeVars, page_token, fetch_all_events, pages, caller,
                   fetch_time_min, fetch_time_max, today, events,
                   target_category, titles, reference_date, num_weeks, week_offset,
                   weekly_data, fetch_log>>

\* execute() raises: nothing catches it in fetch_events or in its callers.
ListFails ==
    /\ pc = "fetch_events"
    /\ requests' = Append(requests, NextRequest)
    /\ pc' = "HttpError"
    /\ UNCHANGED <<cliVars, rangeVars, page_token, fetch_all_events, pages, caller,
                   fetch_time_min, fetch_time_max, today, events,
                   target_category, titles, reference_date, num_weeks, week_offset,
                   weekly_data, fetch_log, result>>

\* One iteration of fetch_events' loop, whatever the source answers.
ListIteration ==
    \/ ListFails
    \/ ListPage
    \/ ListLastPage

NextFetch ==
    \/ CallAnalyzeCalendarRange
    \/ CallAnalyzeCategoryBreakdown
    \/ CallAnalyzeWeeklyTrends
    \/ CallAnalyzeWeek
    \/ ListIteration
    \/ FinishWeeklyTrends

\* The source answers every request, with a page or with a failure.
SpecFetch == InitFetch /\ [][NextFetch]_vars /\ WF_vars(ListIteration)

(***************************************************************************)
(* Claims about fetch_events (SpecFetch)                                   *)
(***************************************************************************)
RECURSIVE ItemsInPageOrder(_)
ItemsInPageOrder(ps) ==
    IF ps = <<>> THEN <<>>
    ELSE LET page == ps[Len(ps)]
         IN  ItemsInPageOrder(SubSeq(ps, 1, Len(ps) - 1))
                 \o (IF page.items = None THEN <<>> ELSE page.items[1])

HasToken(page) == page.nextPageToken # None /\ page.nextPageToken # Some("")

Fetching == pc = "fetch_events"

\* fetch_events has returned and its caller has run on.
Fetched == pc \in {"analyze_calendar_range", "analyze_category_breakdown"}
           \/ (pc \in {"weeks", "analyze_weekly_trends"} /\ pages # <<>>)

\* The weeks analyze_weekly_trends has aggregated so far.
WeeksDone == num_weeks - 1 - week_offset

C14_PageRequests ==
    /\ \A i \in DOMAIN requests :
          /\ requests[i].timeMin = [date |-> Val(arg_start_date), time |-> MinTime, suffix |-> "Z"]
          /\ requests[i].timeMax =
                 [date |-> DatePlus(Val(arg_end_date), 1), time |-> MinTime, suffix |-> "Z"]
          /\ i = 1 => requests[i].pageToken = None
          /\ i > 1 => /\ HasToken(pages[i - 1])
                      /\ requests[i].pageToken = pages[i - 1].nextPageToken
    /\ fetch_all_events = ItemsInPageOrder(pages)
    /\ Fetching =>
          /\ Len(requests) = Len(pages)
          /\ \A i \in DOMAIN pages : HasToken(pages[i])
          /\ result = None
          /\ caller = "analyze_weekly_trends" => Len(weekly_data) = WeeksDone
    /\ Fetched =>
          /\ Len(requests) = Len(pages)
          /\ \A i \in DOMAIN pages : HasToken(pages[i]) <=> i < Len(pages)
          /\ caller = "analyze_calendar_range" =>
                result = analyze_events(ItemsInPageOrder(pages))
          /\ caller = "analyze_category_breakdown" =>
                result = analyze_category_breakdown(ItemsInPageOrder(pages), target_category)
          /\ caller = "analyze_weekly_trends" =>
                LET week == weekly_data[Len(weekly_data)]
                    analysis == analyze_events(ItemsInPageOrder(pages))
                IN  /\ Len(weekly_data) = WeeksDone
                    /\ week.category_time = analysis.category_time
                    /\ week.top_titles = analysis.top_titles

\* C14: the first page request carries no token, every later one the token of
\* the response before it, all of them the same time_min and time_max; the
\* fetch stops at the first response without a token and returns the items of
\* all pages in page order, nothing is aggregated before that, and a fetch
\* whose source stops returning tokens terminates.
C14_Pagination == []C14_PageRequests /\ (Fetching ~> ~Fetching)

\* Three pages with two different tokens, the first and the last with an event.
C14_Witness ==
    /\ pc = "analyze_calendar_range"
    /\ Len(pages) = 3
    /\ pages[1].nextPageToken # pages[2].nextPageToken
    /\ pages[1].items # pages[3].items
    /\ Len(fetch_all_events) = 2
    /\ Keys(result.category_time) = {"Meetings"}

Failed == pc = "HttpError"

C15_NoPartialResult ==
    Failed =>
        /\ result = None
        /\ Len(requests) = Len(pages) + 1
        /\ \A i \in DOMAIN pages : HasToken(pages[i])

\* C15: a failing page request ends fetch_events and the entry point that
\* called it with the failure: the request is not issued again, no page and no
\* week is requested after it, and nothing is returned, the weeks aggregated
\* before it included.
C15_FailurePropagates == []C15_NoPartialResult /\ [][~Failed]_vars

\* The second request of the second week of analyze_weekly_trends fails.
C15_Witness ==
    /\ Failed
    /\ caller = "analyze_weekly_trends"
    /\ Len(weekly_data) = 1
    /\ weekly_data[1].total_hours > 0
    /\ Len(pages) = 1
    /\ Len(requests) = 2

(***************************************************************************)
(* Claims about the summary of analyze_weekly_trends (SpecTrends)          *)
(***************************************************************************)
TrendKeys == {result.trends[k][1] : k \in DOMAIN result.trends}

Listed(names) == {names[i] : i \in DOMAIN names}

NoRepeat(names) == \A i, j \in DOMAIN names : names[i] = names[j] => i = j

\* C16: increasing_categories and decreasing_categories list exactly the
\* categories of that direction, most_improved has the greatest trend_change
\* of all categories and most_declined the least, and neither is None, for
\* every num_weeks (zero and negative included).
C16_Summary ==
    Returned =>
        LET summary == result.summary
        IN  /\ Listed(summary.increasing_categories)
                  = {c \in TrendKeys : TrendOf(c).direction = "increasing"}
            /\ Listed(summary.decreasing_categories)
                  = {c \in TrendKeys : TrendOf(c).direction = "decreasing"}
            /\ NoRepeat(summary.increasing_categories)
            /\ NoRepeat(summary.decreasing_categories)
            /\ summary.most_improved # None
            /\ summary.most_declined # None
            /\ Val(summary.most_improved) \in TrendKeys
            /\ Val(summary.most_declined) \in TrendKeys
            /\ \A c \in TrendKeys :
                  /\ ~RatGt(TrendOf(c).trend_change,
                            TrendOf(Val(summary.most_improved)).trend_change)
                  /\ ~RatLt(TrendOf(c).trend_change,
                            TrendOf(Val(summary.most_declined)).trend_change)

\* One category rises and another, the first of the table, falls.
C16_Witness ==
    /\ Returned
    /\ result.summary.increasing_categories = <<"Meetings">>
    /\ result.summary.decreasing_categories = <<"Professional Tasks">>
    /\ result.summary.most_improved = Some("Meetings")
    /\ result.summary.most_declined = Some("Professional Tasks")

(***************************************************************************)
(* Claims about the classifier's default (Spec)                            *)
(***************************************************************************)
Without(evs, i) == SubSeq(evs, 1, i - 1) \o SubSeq(evs, i + 1, Len(evs))

Timed(e) == e.start # None /\ e.end # None

Untagged(e) == e.colorId = None

UnknownTag(e) == e.colorId # None /\ e.colorId[1] \notin TableTags

SelfMaintenanceHours(ct) == DictGet(ct, "Self-Maintenance", 0)

\* The event's duration is in the Self-Maintenance total of the result.
AddedToSelfMaintenance(i) ==
    /\ "Self-Maintenance" \in Keys(result.category_time)
    /\ SelfMaintenanceHours(result.category_time)
           = SelfMaintenanceHours(analyze_events(Without(events, i)).category_time)
               + (events[i].end[1] - events[i].start[1])

\* The claim as stated: an event without a tag and an event whose tag is not
\* in the table are both added to Self-Maintenance.
C17_AnyUnmappedTagDefaults ==
    pc = "analyze_events" =>
        \A i \in DOMAIN events :
            (Timed(events[i]) /\ (Untagged(events[i]) \/ UnknownTag(events[i])))
                => AddedToSelfMaintenance(i)

\* C17 as amended: an event without a tag is added to Self-Maintenance, the
\* category of the tag '0'; an event whose tag is not in the table is skipped
\* and adds to no category.
C17_MissingTagDefaults ==
    pc = "analyze_events" =>
        \A i \in DOMAIN events :
            /\ (Timed(events[i]) /\ Untagged(events[i])) => AddedToSelfMaintenance(i)
            /\ UnknownTag(events[i]) =>
                  result.category_time = analyze_events(Without(events, i)).category_time

\* An event without a tag and an event with the tag '99', both timed.
C17_Witness ==
    /\ pc = "analyze_events"
    /\ Len(events) = 2
    /\ Timed(events[1]) /\ Untagged(events[1])
    /\ Timed(events[2]) /\ UnknownTag(events[2])
    /\ events[1].end[1] - events[1].start[1] > 0
    /\ events[2].end[1] - events[2].start[1] > 0
    /\ Keys(result.category_time) = {"Self-Maintenance"}

(***************************************************************************)
(* Claims about the sign of the category totals (Spec)                     *)
(***************************************************************************)
\* C18: every value of the category totals analyze_events returns is
\* non-negative, whatever events it is given.
C18_TotalsNonNegative ==
    pc = "analyze_events" =>
        \A k \in DOMAIN result.category_time : result.category_time[k][2] >= 0

(***************************************************************************)
(* SpecTitles: the two analyses applied to events whose titles differ in   *)
(* case and in surrounding whitespace.                                     *)
(***************************************************************************)
TitleTexts ==
    { None,
      Some(<<"A", " ", "B">>),
      Some(<<"a", " ", "B">>),
      Some(<<" ", "A", " ", "B", "\t">>),
      Some(<<"\n", "a", " ", "b">>) }

\* end - start of an event, in hours: an end before the start included
TitleHours == {-1, 1, 2}

TitleColorIds == {Some("7"), None}

TitleEventPool ==
    {[start |-> Some(1), end |-> Some(1 + h), colorId |-> c, summary |-> t] :
        h \in TitleHours, c \in TitleColorIds, t \in TitleTexts}

InitTitles ==
    /\ pc = "ready"
    /\ today = 0
    /\ events \in SeqsUpTo(TitleEventPool, MaxEvents)
    /\ target_category = ""
    /\ titles = <<>>
    /\ reference_date = None
    /\ num_weeks = 0
    /\ week_offset = 0
    /\ weekly_data = <<>>
    /\ fetch_log = <<>>
    /\ result = <<>>
    /\ NoRange
    /\ NoFetch
    /\ NoCli

NextTitles ==
    \/ AnalyzeEvents
    \/ AnalyzeCategoryBreakdown

SpecTitles == InitTitles /\ [][NextTitles]_vars

(***************************************************************************)
(* Claims about the titles (SpecTitles)                                    *)
(***************************************************************************)
\* The title of an event as the event source gives it.
RawTitle(e) == IF e.summary = None THEN <<"U", "n", "t", "i", "t", "l", "e", "d">> ELSE e.summary[1]

Trimmed(t) == Strip(t)

Folded(t) == Lower(Strip(t))

InCategory(category) == {i \in DOMAIN events : ClaimCategory(events[i]) = category}

RECURSIVE HoursOf(_)
HoursOf(is) ==
    IF is = {} THEN 0
    ELSE LET i == CHOOSE j \in is : TRUE
         IN  (events[i].end[1] - events[i].start[1]) + HoursOf(is \ {i})

\* A title -> hours dict has one entry per title.
OneEntryPerTitle(d) == \A i, j \in DOMAIN d : d[i][1] = d[j][1] => i = j

\* C19: the summary sums the events of a category under their trimmed and
\* case-folded titles, the breakdown under their trimmed titles only: titles
\* differing in case alone are one title in the summary and two in the
\* breakdown, titles differing in surrounding whitespace alone are one title
\* in both.
C19_TitleNormalization ==
    /\ pc = "analyze_events" =>
          \A k \in DOMAIN result.top_titles :
              LET category == result.top_titles[k][1]
                  ranked   == result.top_titles[k][2]
              IN  /\ OneEntryPerTitle(ranked)
                  /\ Keys(ranked) = {Folded(RawTitle(events[i])) : i \in InCategory(category)}
                  /\ \A n \in DOMAIN ranked :
                        ranked[n][2] =
                            HoursOf({i \in InCategory(category) :
                                        Folded(RawTitle(events[i])) = ranked[n][1]})
    /\ pc = "analyze_category_breakdown" =>
          /\ OneEntryPerTitle(result.event_types)
          /\ Keys(result.event_types)
                 = {Trimmed(RawTitle(events[i])) : i \in InCategory(target_category)}
          /\ \A n \in DOMAIN result.event_types :
                result.event_types[n][2] =
                    HoursOf({i \in InCategory(target_category) :
                                Trimmed(RawTitle(events[i])) = result.event_types[n][1]})

\* "A B" and "a B" in one category.
CaseVariants ==
    /\ Len(events) = 2
    /\ events[1].summary = Some(<<"A", " ", "B">>)
    /\ events[2].summary = Some(<<"a", " ", "B">>)
    /\ events[1].colorId = Some("7") /\ events[2].colorId = Some("7")

\* The breakdown keeps the case variants apart.
C19_Witness ==
    /\ pc = "analyze_category_breakdown"
    /\ target_category = "Meetings"
    /\ CaseVariants
    /\ Len(result.event_types) = 2

\* The summary sums the case variants under one title.
C19_WitnessSummary ==
    /\ pc = "analyze_events"
    /\ CaseVariants
    /\ Len(result.top_titles[1][2]) = 1
    /\ result.top_titles[1][2][1][2] = 3

\* " A B\t" and "A B" are one title of the breakdown.
C19_WitnessWhitespace ==
    /\ pc = "analyze_category_breakdown"
    /\ target_category = "Meetings"
    /\ Len(events) = 2
    /\ events[1].summary = Some(<<" ", "A", " ", "B", "\t">>)
    /\ events[2].summary = Some(<<"A", " ", "B">>)
    /\ events[1].colorId = Some("7") /\ events[2].colorId = Some("7")
    /\ Len(result.event_types) = 1

(***************************************************************************)
(* Claims about the newest week of analyze_weekly_trends (SpecTrends)      *)
(***************************************************************************)
\* C20: the newest window analyze_weekly_trends analyses is the Sunday to
\* Saturday week that contains today, the one get_week_range(today) returns.
C20_NewestWeekIsCurrentWeek ==
    Returned =>
        LET newest == result.weekly_data[Len(result.weekly_data)]
        IN  /\ <<newest.week_start, newest.week_end>> = get_week_range(Some(today))
            /\ ToOrdinal(newest.week_start) <= ToOrdinal(today)
            /\ ToOrdinal(today) <= ToOrdinal(newest.week_end)

(***************************************************************************)
(* Claims about event_type_percentages (SpecTitles)                        *)
(***************************************************************************)
BreakdownReturned == pc = "analyze_category_breakdown"

\* C21: event_type_percentages is filled only if category_total_hours > 0,
\* then with the keys of event_types, in their order, each with its hours /
\* category_total_hours * 100; with a total of zero or less it is empty, also
\* when event_types is not.
C21_EventTypePercentages ==
    BreakdownReturned =>
        LET types == result.event_types
            pcts  == result.event_type_percentages
            total == result.category_total_hours
        IN  IF total > 0
            THEN /\ Len(pcts) = Len(types)
                 /\ \A i \in DOMAIN types :
                       /\ pcts[i][1] = types[i][1]
                       /\ pcts[i][2].den # 0
                       /\ pcts[i][2].num * total = types[i][2] * 100 * pcts[i][2].den
            ELSE pcts = <<>>

\* Two titles of the target category with 1 and 2 hours: a third and two thirds.
C21_Witness ==
    /\ BreakdownReturned
    /\ result.category_total_hours = 3
    /\ Len(result.event_types) = 2
    /\ Len(result.event_type_percentages) = 2
    /\ result.event_type_percentages[1][2].num * 3 = 100 * result.event_type_percentages[1][2].den

\* Two titles whose hours cancel: event_types has both, the percentages none.
C21_WitnessCancelled ==
    /\ BreakdownReturned
    /\ result.category_total_hours = 0
    /\ Len(result.event_types) = 2
    /\ result.event_type_percentages = <<>>

(***************************************************************************)
(* Claims about the breakdown's own aggregation loop (Spec)                *)
(***************************************************************************)
\* The trimmed titles of the valid events of a category.
TitlesOf(category) ==
    {Strip(IF events[i].summary = None
           THEN <<"U", "n", "t", "i", "t", "l", "e", "d">>
           ELSE events[i].summary[1]) :
        i \in {j \in DOMAIN events :
                  ClaimValid(events[j]) /\ ClaimCategory(events[j]) = category}}

\* C22: the breakdown's loop agrees with analyze_events on the same events:
\* total_calendar_hours is the sum of analyze_events' category totals,
\* category_total_hours is analyze_events' total of the target category (0
\* when it has none), and is the sum of the values of event_types, whose
\* titles are those of the target category's valid events.
C22_BreakdownAgreesWithAnalyzeEvents ==
    pc = "analyze_category_breakdown" =>
        LET category_time == analyze_events(events).category_time
        IN  /\ result.total_calendar_hours = SumSeq(Values(category_time))
            /\ result.category_total_hours = DictGet(category_time, target_category, 0)
            /\ target_category \notin Keys(category_time) => result.category_total_hours = 0
            /\ result.category_total_hours = SumSeq(Values(result.event_types))
            /\ Keys(result.event_types) = TitlesOf(target_category)

\* An event of the target category, an event of another one, both valid.
C22_Witness ==
    /\ pc = "analyze_category_breakdown"
    /\ target_category = "Self-Maintenance"
    /\ Len(events) = 2
    /\ ClaimValid(events[1]) /\ ClaimCategory(events[1]) = "Meetings"
    /\ ClaimValid(events[2]) /\ ClaimCategory(events[2]) = "Self-Maintenance"
    /\ result.category_total_hours = 2
    /\ result.total_calendar_hours = 4

\* A target that is no category of the table.
C22_WitnessNoCategory ==
    /\ pc = "analyze_category_breakdown"
    /\ target_category = "Hobbies"
    /\ Len(events) = 2
    /\ ClaimValid(events[1])
    /\ result.total_calendar_hours = 2
    /\ result.category_total_hours = 0
    /\ result.event_types = <<>>

(***************************************************************************)
(* cli.py: CalendarTrackerCLI.get_number_of_weeks and run                  *)
(***************************************************************************)
Digits == {"0", "1", "2", "3", "4", "5", "6", "7", "8", "9"}

DigitValue(c) ==
    CASE c = "0" -> 0 [] c = "1" -> 1 [] c = "2" -> 2 [] c = "3" -> 3 [] c = "4" -> 4
      [] c = "5" -> 5 [] c = "6" -> 6 [] c = "7" -> 7 [] c = "8" -> 8 [] c = "9" -> 9

\* The value of a text of digits and underscores, in base 10.
RECURSIVE DecimalValue(_)
DecimalValue(s) ==
    IF s = <<>> THEN 0
    ELSE LET front == SubSeq(s, 1, Len(s) - 1)
             last  == s[Len(s)]
         IN  IF last = "_" THEN DecimalValue(front)
             ELSE DecimalValue(front) * 10 + DigitValue(last)

\* int(text): surrounding whitespace and a sign are allowed, underscores only
\* between two digits; anything else raises ValueError.
ParseInt(text) ==
    LET body     == Strip(text)
        signed   == body # <<>> /\ body[1] \in {"+", "-"}
        digits   == IF signed THEN Tail(body) ELSE body
        wellFormed ==
            /\ digits # <<>>
            /\ \A i \in DOMAIN digits : digits[i] \in Digits \cup {"_"}
            /\ digits[1] # "_" /\ digits[Len(digits)] # "_"
            /\ \A i \in 1..(Len(digits) - 1) : ~(digits[i] = "_" /\ digits[i + 1] = "_")
    IN  IF ~wellFormed THEN Raise("ValueError")
        ELSE IF signed /\ body[1] = "-" THEN Return(-DecimalValue(digits))
        ELSE Return(DecimalValue(digits))

MinWeeksAsked == 2

MaxWeeksAsked == 12

\* Mutant of WeeksAccepted: one week is accepted too.
WeeksAcceptedFromOne(weeks) == 1 <= weeks /\ weeks <= MaxWeeksAsked

\* if 2 <= weeks <= 12
WeeksAccepted(weeks) == MinWeeksAsked <= weeks /\ weeks <= MaxWeeksAsked

(***************************************************************************)
(* SpecCli: a run of the CLI, followed through the Weekly Trends mode      *)
(***************************************************************************)
\* What the user types at the mode menu.
ModeChoices == {<<"1">>, <<"2">>, <<" ", "2">>, <<"3">>, <<"x">>}

\* What the user types when asked for the number of weeks.
WeekEntries ==
    { <<>>, <<"x">>, <<"2", ".", "5">>, <<"1", "_", "_", "2">>, <<"_", "3">>,
      <<"0">>, <<"1">>, <<"-", "3">>, <<"1", "3">>, <<"1", "2", "0">>,
      <<"2">>, <<" ", "3", " ">>, <<"+", "4">>, <<"0", "5">>, <<"1", "_", "1">>,
      <<"1", "2">> }

\* What fetch_events returns for a week of the run.
CliWeekFetches == { <<>>, <<TrendEvent(Some("7"), 10)>> }

InitCli ==
    /\ pc = "run"
    /\ today = Date(2024, 2, 28)
    /\ events = <<>>
    /\ target_category = ""
    /\ titles = <<>>
    /\ reference_date = None
    /\ num_weeks = 0
    /\ week_offset = 0
    /\ weekly_data = <<>>
    /\ fetch_log = <<>>
    /\ result = <<>>
    /\ NoRange
    /\ NoFetch
    /\ NoCli

\* run up to get_analysis_parameters' branch on display_analysis_mode_menu():
\* the other modes and an invalid choice never reach analyze_weekly_trends.
ChooseAnalysisMode ==
    /\ pc = "run"
    /\ \E typed \in ModeChoices :
          /\ user_entry' = Some(typed)
          /\ pc' = CASE Strip(typed) = <<"1">> -> "general"
                     [] Strip(typed) = <<"2">> -> "get_number_of_weeks"
                     [] Strip(typed) = <<"3">> -> "category"
                     [] OTHER -> "ValueError"
    /\ UNCHANGED <<rangeVars, fetchVars, today, events, target_category, titles,
                   reference_date, num_weeks, week_offset, weekly_data, fetch_log, result>>

\* One iteration of get_number_of_weeks' loop; on an accepted entry the
\* function returns and run calls analyze_weekly_trends(num_weeks), up to the
\* first test of its loop.
AskNumberOfWeeks ==
    /\ pc = "get_number_of_weeks"
    /\ \E typed \in WeekEntries :
          LET weeks == ParseInt(Strip(typed))
          IN  /\ user_entry' = Some(typed)
              /\ IF ~Raised(weeks) /\ WeeksAccepted(weeks.returned)
                 THEN /\ num_weeks' = weeks.returned
                      /\ week_offset' = weeks.returned - 1
                      /\ pc' = "weeks"
                 ELSE UNCHANGED <<num_weeks, week_offset, pc>>
    /\ UNCHANGED <<rangeVars, fetchVars, today, events, target_category, titles,
                   reference_date, weekly_data, fetch_log, result>>

\* input() raises EOFError: the input has ended. run reports it and ends.
InputEnds ==
    /\ pc = "get_number_of_weeks"
    /\ pc' = "EOFError"
    /\ UNCHANGED <<rangeVars, fetchVars, cliVars, today, events, target_category, titles,
                   reference_date, num_weeks, week_offset, weekly_data, fetch_log, result>>

\* One iteration of analyze_weekly_trends' loop.
CliAnalyzeWeek ==
    /\ pc = "weeks"
    /\ week_offset >= 0
    /\ \E fetched \in CliWeekFetches :
          LET week_end   == WeekEnd(LastSaturday(today), week_offset)
              week_start == WeekStart(week_end)
          IN  /\ fetch_log' = Append(fetch_log, dates_to_iso_range(week_start, week_end))
              /\ events' = fetched
              /\ weekly_data' =
                     Append(weekly_data,
                            WeekInfo(week_start, week_end, analyze_events(fetched)))
    /\ week_offset' = week_offset - 1
    /\ UNCHANGED <<rangeVars, fetchVars, cliVars, pc, today, target_category, titles,
                   reference_date, num_weeks, result>>

NextCli ==
    \/ ChooseAnalysisMode
    \/ AskNumberOfWeeks
    \/ InputEnds
    \/ CliAnalyzeWeek
    \/ FinishWeeklyTrends

SpecCli == InitCli /\ [][NextCli]_vars

(***************************************************************************)
(* Claims about the number of weeks the CLI asks for (SpecCli)             *)
(***************************************************************************)
Asking == pc = "get_number_of_weeks"

\* The text is an integer of 2..12, as int() reads it.
IsWeeksIn2To12(text) ==
    LET weeks == ParseInt(Strip(text))
    IN  IF Raised(weeks) THEN FALSE ELSE weeks.returned \in 2..12

TrendsInvoked == pc \in {"weeks", "analyze_weekly_trends"}

C23_OnlyTwoToTwelve ==
    /\ TrendsInvoked =>
          /\ num_weeks \in 2..12
          /\ IsWeeksIn2To12(Val(user_entry))
          /\ ParseInt(Strip(Val(user_entry))).returned = num_weeks
    /\ ~TrendsInvoked => weekly_data = <<>> /\ result = None /\ num_weeks = 0
    /\ Returned =>
          \A k \in DOMAIN result.trends :
              /\ Len(result.trends[k][2].hours_list) = num_weeks
              /\ Len(result.trends[k][2].hours_list) >= 2

\* An entry read by get_number_of_weeks is either returned, when it is an
\* integer of 2..12, or followed by the prompt again.
C23_Reprompts ==
    (Asking /\ user_entry' # user_entry) =>
        IF IsWeeksIn2To12(Val(user_entry'))
        THEN pc' = "weeks" /\ num_weeks' = ParseInt(Strip(Val(user_entry'))).returned
        ELSE Asking' /\ num_weeks' = num_weeks

\* C23: get_number_of_weeks asks again after every entry that is no integer or
\* is outside 2..12 and returns only a value of 2..12, so the CLI calls
\* analyze_weekly_trends only with 2 <= num_weeks <= 12 and every hours_list
\* has at least 2 entries: the branch for shorter lists is not taken.
C23_WeeksFromCli == []C23_OnlyTwoToTwelve /\ [][C23_Reprompts]_vars

\* The trends of 12 weeks, asked for as "12".
C23_Witness ==
    /\ Returned
    /\ user_entry = Some(<<"1", "2">>)
    /\ num_weeks = 12
    /\ Len(result.weekly_data) = 12

\* The prompt again after "13".
C23_WitnessAsksAgain ==
    /\ Asking
    /\ user_entry = Some(<<"1", "3">>)
    /\ num_weeks = 0

(***************************************************************************)
(* Claims about the weekly totals and the category series (SpecTrends)     *)
(***************************************************************************)
\* The hours the back-filled series hold for week i, all categories together.
RECURSIVE SeriesHours(_, _)
SeriesHours(trends, i) ==
    IF trends = <<>> THEN 0
    ELSE trends[1][2].hours_list[i] + SeriesHours(Tail(trends), i)

\* C24: for every week i, weekly_data[i].total_hours is the sum over all
\* categories of trends[category].hours_list[i], and every category the week
\* has hours in has them at index i of its own series.
C24_WeekTotalsMatchSeries ==
    Returned =>
        \A i \in DOMAIN result.weekly_data :
            LET week == result.weekly_data[i]
            IN  /\ week.total_hours = SeriesHours(result.trends, i)
                /\ \A k \in DOMAIN week.category_time :
                      TrendOf(week.category_time[k][1]).hours_list[i] = week.category_time[k][2]
                /\ \A c \in TrendKeys :
                      c \notin Keys(week.category_time) => TrendOf(c).hours_list[i] = 0

\* A week with hours in two categories, one of them negative, among others.
C24_Witness ==
    /\ Returned
    /\ num_weeks = 3
    /\ Len(result.weekly_data[2].category_time) = 2
    /\ result.weekly_data[2].total_hours = 2
    /\ TrendOf("Self-Maintenance").hours_list = <<0, -1, 0>>
    /\ TrendOf("Professional Tasks").hours_list[2] = 3
    /\ result.weekly_data[3].total_hours = 20

====
